---- MODULE Spec2Model ----
(***************************************************************************)
(* Model of example_argparse_usage.py: a command-line line counter.        *)
(*                                                                         *)
(* main() runs parse_arguments(), set_logger(args) and                     *)
(* count_lines_in_file(args.filepath, test_mode=args.test) in sequence.    *)
(* The model keeps the argument vector, the file system, the root logger,  *)
(* both standard streams and the handle of the target file, and takes one  *)
(* step per statement of the program.                                      *)
(*                                                                         *)
(* Text is a sequence of chunks; the chunks "\n" and "\r" are the line     *)
(* break characters and every other chunk is text without a line break.    *)
(***************************************************************************)
EXTENDS Integers, Sequences, FiniteSets, TLC

VARIABLES argv, fs, fs0, pc, args, logger, issued, stdout, stderr,
          handle, lines, exc, events, exitCode

vars == <<argv, fs, fs0, pc, args, logger, issued, stdout, stderr,
          handle, lines, exc, events, exitCode>>

(***************************************************************************)
(* Bounds of the explored inputs.                                          *)
(***************************************************************************)
MaxArgs == 3
MaxFileLen == 3

(***************************************************************************)
(* Characters and text.                                                    *)
(***************************************************************************)
LF == "\n"
CR == "\r"
BadByte == "<0xff>"
Chars == {"x", LF, CR, BadByte}

RECURSIVE SeqsUpTo(_, _)
SeqsUpTo(S, n) ==
  IF n = 0 THEN {<<>>}
  ELSE LET shorter == SeqsUpTo(S, n - 1)
       IN  shorter \cup {Append(s, c) : s \in {t \in shorter : Len(t) = n - 1}, c \in S}

(***************************************************************************)
(* Paths and the file system.                                              *)
(***************************************************************************)
ATxt == <<"a.txt">>
NlPath == <<"a", LF, "b">>
LogFileName == <<"logfile.log">>
Paths == {ATxt, NlPath, LogFileName}

Absent == [kind |-> "absent", content |-> <<>>, readable |-> FALSE, writable |-> FALSE]
Directory == [kind |-> "dir", content |-> <<>>, readable |-> TRUE, writable |-> TRUE]
File(c, r, w) == [kind |-> "file", content |-> c, readable |-> r, writable |-> w]

(* the entry of a path; a path the file system does not list is absent *)
Entry(f, p) == IF p \in DOMAIN f THEN f[p] ELSE Absent

(* an existence check that answers yes for every path *)
exists_always(f, p) == TRUE

(* os.path.exists(filepath) *)
exists(f, p) == Entry(f, p).kind # "absent"

(***************************************************************************)
(* The command line.                                                       *)
(***************************************************************************)
TestFlags == {<<"-t">>, <<"--test">>}
LogLevelFlag == <<"--log-level">>
LogToFileFlag == <<"--log-to-file">>
HelpFlags == {<<"-h">>, <<"--help">>}
OptionStrings == TestFlags \cup {LogLevelFlag, LogToFileFlag} \cup HelpFlags

(* choices=[...] of --log-level *)
choices == {<<"DEBUG">>, <<"INFO">>, <<"WARNING">>, <<"ERROR">>, <<"CRITICAL">>}

(* str.upper() on the level names and their lower-case spellings *)
upper(s) ==
  CASE s = <<"debug">> -> <<"DEBUG">>
    [] s = <<"info">> -> <<"INFO">>
    [] s = <<"warning">> -> <<"WARNING">>
    [] s = <<"error">> -> <<"ERROR">>
    [] s = <<"critical">> -> <<"CRITICAL">>
    [] OTHER -> s

(* a choices check that ignores case *)
check_value_anycase(v) == upper(v) \in choices

(* the choices check argparse applies to the value of --log-level *)
check_value(v) == v \in choices

(* the namespace before any argument is consumed: filepath missing, the
   store_true flags False, log_level at its default *)
NoPath == <<>>
Defaults == [filepath |-> NoPath, test |-> FALSE, log_level |-> <<"WARNING">>,
             log_to_file |-> FALSE]

(* ArgumentParser.parse_args over the argument vector, left to right from
   position i with namespace ns and the unrecognised positionals in extras *)
RECURSIVE parse_args(_, _, _, _)
parse_args(av, i, ns, extras) ==
  IF i > Len(av)
  THEN IF ns.filepath = NoPath
       THEN [status |-> "error", why |-> "required", ns |-> ns]
       ELSE IF extras # <<>>
            THEN [status |-> "error", why |-> "unrecognized", ns |-> ns]
            ELSE [status |-> "ok", why |-> "", ns |-> ns]
  ELSE LET tok == av[i] IN
       IF tok \in HelpFlags
       THEN [status |-> "help", why |-> "", ns |-> ns]
       ELSE IF tok \in TestFlags
       THEN parse_args(av, i + 1, [ns EXCEPT !.test = TRUE], extras)
       ELSE IF tok = LogToFileFlag
       THEN parse_args(av, i + 1, [ns EXCEPT !.log_to_file = TRUE], extras)
       ELSE IF tok = LogLevelFlag
       THEN IF i + 1 > Len(av) \/ av[i + 1] \in OptionStrings
            THEN [status |-> "error", why |-> "expected one argument", ns |-> ns]
            ELSE IF ~check_value(av[i + 1])
                 THEN [status |-> "error", why |-> "invalid choice", ns |-> ns]
                 ELSE parse_args(av, i + 2, [ns EXCEPT !.log_level = av[i + 1]], extras)
       ELSE IF ns.filepath = NoPath
       THEN parse_args(av, i + 1, [ns EXCEPT !.filepath = tok], extras)
       ELSE parse_args(av, i + 1, ns, Append(extras, tok))


(***************************************************************************)
(* Logging.                                                                *)
(***************************************************************************)
(* numeric severities of the logging module for the five level names *)
LevelNo == [l \in choices |->
              CASE l = <<"DEBUG">> -> 10
                [] l = <<"INFO">> -> 20
                [] l = <<"WARNING">> -> 30
                [] l = <<"ERROR">> -> 40
                [] l = <<"CRITICAL">> -> 50]

(* the root logger before basicConfig: no handler, level WARNING *)
Unconfigured == [configured |-> FALSE, level |-> 30, handler |-> "none"]

(* a threshold that also discards records exactly at the configured level *)
isEnabledFor_strict(lg, levelname) == LevelNo[levelname] > lg.level

(* Logger.isEnabledFor(level) of the root logger *)
isEnabledFor(lg, levelname) == LevelNo[levelname] >= lg.level

(* format="%(asctime)s - %(levelname)s - %(message)s" plus the terminator *)
Format(levelname, msg) == <<"<asctime>", " - ">> \o levelname \o <<" - ">> \o msg \o <<LF>>

LogRecord(levelname, msg) == [kind |-> "log", levelname |-> levelname, text |-> Format(levelname, msg)]
Diagnostic(kind, what) == [kind |-> kind, levelname |-> <<>>, text |-> <<what>>]

(* a console that receives every passing record, whatever the handler *)
StderrAfterLog_both(lg, err, levelname, msg) ==
  IF isEnabledFor(lg, levelname)
  THEN Append(err, LogRecord(levelname, msg))
  ELSE err

(* the console after logging.<level>(msg) *)
StderrAfterLog(lg, err, levelname, msg) ==
  IF isEnabledFor(lg, levelname) /\ lg.handler = "stream"
  THEN Append(err, LogRecord(levelname, msg))
  ELSE err

(* the file system after logging.<level>(msg) *)
FsAfterLog(lg, f, levelname, msg) ==
  IF isEnabledFor(lg, levelname) /\ lg.handler = "file"
  THEN [f EXCEPT ![LogFileName].content = @ \o Format(levelname, msg)]
  ELSE f

Call(levelname, msg) == [levelname |-> levelname, msg |-> msg]
Event(op, arg) == [op |-> op, arg |-> arg]

(***************************************************************************)
(* Reading the target file: open(filepath, 'r', encoding='utf-8') decodes  *)
(* UTF-8 and translates "\r\n" and "\r" to "\n" (universal newlines);      *)
(* readlines() splits after every "\n".                                    *)
(***************************************************************************)
ValidUtf8(c) == \A i \in 1..Len(c) : c[i] # BadByte

RECURSIVE Translate(_)
Translate(c) ==
  IF c = <<>> THEN <<>>
  ELSE IF Head(c) = CR
       THEN IF Len(c) > 1 /\ c[2] = LF
            THEN <<LF>> \o Translate(Tail(Tail(c)))
            ELSE <<LF>> \o Translate(Tail(c))
       ELSE <<Head(c)>> \o Translate(Tail(c))

RECURSIVE SplitLines(_, _)
SplitLines(c, cur) ==
  IF c = <<>> THEN (IF cur = <<>> THEN <<>> ELSE <<cur>>)
  ELSE IF Head(c) = LF
       THEN <<Append(cur, LF)>> \o SplitLines(Tail(c), <<>>)
       ELSE SplitLines(Tail(c), Append(cur, Head(c)))

(* a split on "\n" that also returns the empty remainder after the last one *)
readlines_split(c) == SplitLines(Translate(c), <<>>) \o <<(<<>>)>>

readlines(c) == SplitLines(Translate(c), <<>>)

(* line_count = len(lines) *)
line_count == Len(lines)

(***************************************************************************)
(* Messages.                                                               *)
(***************************************************************************)
TestModeMsg == <<"Test mode: skipping actual file processing.">>
NotFoundMsg(fp) == <<"File not found: ">> \o fp
ProcessedMsg(fp) == <<"Processed file: ">> \o fp
TotalMsg(n) == <<"Total lines: ", ToString(n)>>
Summary(fp, n) == <<" ">> \o fp \o <<" has ", ToString(n), " lines.">>
HelpText == <<"usage: example_argparse_usage.py [-h] [-t] [--log-level ...] [--log-to-file] filepath", LF>>

(***************************************************************************)
(* Initial states: a command line and a file system.                       *)
(*                                                                         *)
(* InitCommand draws well-formed command lines over every option value and *)
(* a file system whose target entry ranges over every kind and content;    *)
(* InitArgv draws arbitrary token sequences over a fixed file system.      *)
(***************************************************************************)
Contents == SeqsUpTo(Chars, MaxFileLen)

TargetEntries ==
  {Absent, Directory, File(<<"x", LF>>, FALSE, TRUE), File(<<"x", LF>>, TRUE, FALSE)}
    \cup {File(c, TRUE, TRUE) : c \in Contents}

LogEntries == {Absent, Directory, File(<<>>, TRUE, TRUE)}

MkFs(p, e, l) ==
  [q \in Paths |-> IF q = p THEN e ELSE IF q = LogFileName THEN l ELSE Absent]

CommandLine(p, t, lv, ltf) ==
  <<p>> \o (IF t THEN <<(<<"-t">>)>> ELSE <<>>)
        \o (IF lv = <<>> THEN <<>> ELSE <<LogLevelFlag, lv>>)
        \o (IF ltf THEN <<LogToFileFlag>> ELSE <<>>)

Tokens == {ATxt, LogFileName, <<"-t">>, <<"--test">>, LogLevelFlag, <<"INFO">>,
           <<"BOGUS">>, <<"info">>, LogToFileFlag, <<"-h">>}

Started(av, f) ==
  /\ argv = av
  /\ fs = f
  /\ fs0 = f
  /\ pc = "parse_arguments"
  /\ args = Defaults
  /\ logger = Unconfigured
  /\ issued = <<>>
  /\ stdout = <<>>
  /\ stderr = <<>>
  /\ handle = "none"
  /\ lines = <<>>
  /\ exc = "none"
  /\ events = <<>>
  /\ exitCode = -1

InitCommand ==
  \E p \in Paths, t \in BOOLEAN, lv \in choices \cup {<<>>}, ltf \in BOOLEAN,
     e \in TargetEntries, l \in LogEntries :
    Started(CommandLine(p, t, lv, ltf), MkFs(p, e, l))

InitArgv ==
  \E av \in SeqsUpTo(Tokens, MaxArgs),
     f \in {MkFs(ATxt, File(<<"x", LF>>, TRUE, TRUE), Absent),
            MkFs(ATxt, Absent, Directory)} :
    Started(av, f)

Init == InitCommand \/ InitArgv

(***************************************************************************)
(* main(): args = parse_arguments()                                        *)
(***************************************************************************)
parse_arguments ==
  /\ pc = "parse_arguments"
  /\ LET r == parse_args(argv, 1, Defaults, <<>>) IN
       CASE r.status = "ok" ->
              /\ args' = r.ns
              /\ pc' = "set_logger"
              /\ UNCHANGED <<stdout, stderr, exitCode>>
         [] r.status = "help" ->
              /\ stdout' = stdout \o HelpText
              /\ exitCode' = 0
              /\ pc' = "exit"
              /\ UNCHANGED <<args, stderr>>
         [] r.status = "error" ->
              /\ stderr' = Append(stderr, Diagnostic("usage", r.why))
              /\ exitCode' = 2
              /\ pc' = "exit"
              /\ UNCHANGED <<args, stdout>>
  /\ UNCHANGED <<argv, fs, fs0, logger, issued, handle, lines, exc, events>>

(***************************************************************************)
(* set_logger(args): logging.basicConfig with or without filename          *)
(***************************************************************************)
CanAppend(e) == e.kind = "absent" \/ (e.kind = "file" /\ e.writable)

set_logger ==
  /\ pc = "set_logger"
  /\ IF args.log_to_file
     THEN IF CanAppend(fs[LogFileName])
          THEN /\ fs' = [fs EXCEPT ![LogFileName] =
                           IF @.kind = "absent" THEN File(<<>>, TRUE, TRUE) ELSE @]
               /\ logger' = [configured |-> TRUE,
                             level |-> LevelNo[upper(args.log_level)],
                             handler |-> "file"]
               /\ events' = Append(events, Event("open_log", LogFileName))
               /\ pc' = "count_lines_in_file"
               /\ UNCHANGED <<stderr, exitCode>>
          ELSE /\ stderr' = Append(stderr, Diagnostic("traceback", "OSError"))
               /\ events' = Append(events, Event("open_log_failed", LogFileName))
               /\ exitCode' = 1
               /\ pc' = "exit"
               /\ UNCHANGED <<fs, logger>>
     ELSE /\ logger' = [configured |-> TRUE,
                        level |-> LevelNo[upper(args.log_level)],
                        handler |-> "stream"]
          /\ pc' = "count_lines_in_file"
          /\ UNCHANGED <<fs, stderr, events, exitCode>>
  /\ UNCHANGED <<argv, fs0, args, issued, stdout, handle, lines, exc>>

(***************************************************************************)
(* count_lines_in_file(filepath, test_mode)                                *)
(***************************************************************************)
(* the effect of logging.<level>(msg) on the record of calls, the console,
   the log file and the trace *)
Log(levelname, msg) ==
  /\ issued' = Append(issued, Call(levelname, msg))
  /\ stderr' = StderrAfterLog(logger, stderr, levelname, msg)
  /\ fs' = FsAfterLog(logger, fs, levelname, msg)
  /\ events' = Append(events, Event("log", msg))

(* test mode that reports at DEBUG severity *)
count_lines_test_mode_debug ==
  /\ pc = "count_lines_in_file"
  /\ args.test
  /\ Log(<<"DEBUG">>, TestModeMsg)
  /\ exitCode' = 0
  /\ pc' = "exit"
  /\ UNCHANGED <<argv, fs0, args, logger, stdout, handle, lines, exc>>

(* if test_mode: logging.info(...); return *)
count_lines_test_mode ==
  /\ pc = "count_lines_in_file"
  /\ args.test
  /\ Log(<<"INFO">>, TestModeMsg)
  /\ exitCode' = 0
  /\ pc' = "exit"
  /\ UNCHANGED <<argv, fs0, args, logger, stdout, handle, lines, exc>>

(* the existence check of count_lines_exists, run whatever test_mode is *)
count_lines_exists_first ==
  /\ pc = "count_lines_in_file"
  /\ events' = Append(events, Event("exists", args.filepath))
  /\ pc' = IF exists(fs, args.filepath) THEN "open" ELSE "exit"
  /\ exitCode' = IF exists(fs, args.filepath) THEN exitCode ELSE 0
  /\ UNCHANGED <<argv, fs, fs0, args, logger, issued, stdout, stderr, handle, lines, exc>>

(* if not os.path.exists(filepath): logging.error(...); return *)
count_lines_exists ==
  /\ pc = "count_lines_in_file"
  /\ ~args.test
  /\ IF ~exists(fs, args.filepath)
     THEN /\ issued' = Append(issued, Call(<<"ERROR">>, NotFoundMsg(args.filepath)))
          /\ stderr' = StderrAfterLog(logger, stderr, <<"ERROR">>, NotFoundMsg(args.filepath))
          /\ fs' = FsAfterLog(logger, fs, <<"ERROR">>, NotFoundMsg(args.filepath))
          /\ events' = events \o <<Event("exists", args.filepath),
                                   Event("log", NotFoundMsg(args.filepath))>>
          /\ exitCode' = 0
          /\ pc' = "exit"
     ELSE /\ events' = Append(events, Event("exists", args.filepath))
          /\ pc' = "open"
          /\ UNCHANGED <<issued, stderr, fs, exitCode>>
  /\ UNCHANGED <<argv, fs0, args, logger, stdout, handle, lines, exc>>

(* with open(filepath, 'r', encoding='utf-8') as f: *)
CanRead(e) == e.kind = "file" /\ e.readable

count_lines_open ==
  /\ pc = "open"
  /\ IF CanRead(Entry(fs, args.filepath))
     THEN /\ handle' = "open"
          /\ events' = Append(events, Event("open", args.filepath))
          /\ pc' = "readlines"
          /\ UNCHANGED <<stderr, exitCode>>
     ELSE /\ stderr' = Append(stderr, Diagnostic("traceback", "OSError"))
          /\ events' = Append(events, Event("open_failed", args.filepath))
          /\ exitCode' = 1
          /\ pc' = "exit"
          /\ UNCHANGED handle
  /\ UNCHANGED <<argv, fs, fs0, args, logger, issued, stdout, lines, exc>>

(* the valid prefix of a content *)
RECURSIVE ValidPrefix(_)
ValidPrefix(c) ==
  IF c = <<>> \/ Head(c) = BadByte THEN <<>> ELSE <<Head(c)>> \o ValidPrefix(Tail(c))

(* a read that keeps the lines decoded before a decoding error and goes on *)
count_lines_readlines_partial ==
  /\ pc = "readlines"
  /\ lines' = readlines(ValidPrefix(Entry(fs, args.filepath).content))
  /\ exc' = IF ValidUtf8(Entry(fs, args.filepath).content) THEN exc ELSE "UnicodeDecodeError"
  /\ events' = Append(events, Event(IF ValidUtf8(Entry(fs, args.filepath).content)
                                     THEN "readlines" ELSE "readlines_failed", args.filepath))
  /\ pc' = "info_processed"
  /\ UNCHANGED <<argv, fs, fs0, args, logger, issued, stdout, stderr, handle, exitCode>>

(* a read outside any with block: a decoding error leaves the handle open *)
count_lines_readlines_leak ==
  /\ pc = "readlines"
  /\ IF ValidUtf8(Entry(fs, args.filepath).content)
     THEN /\ lines' = readlines(Entry(fs, args.filepath).content)
          /\ events' = Append(events, Event("readlines", args.filepath))
          /\ pc' = "info_processed"
          /\ UNCHANGED <<exc, stderr, exitCode>>
     ELSE /\ exc' = "UnicodeDecodeError"
          /\ events' = Append(events, Event("readlines_failed", args.filepath))
          /\ stderr' = Append(stderr, Diagnostic("traceback", "UnicodeDecodeError"))
          /\ exitCode' = 1
          /\ pc' = "exit"
          /\ UNCHANGED lines
  /\ UNCHANGED <<argv, fs, fs0, args, logger, issued, stdout, handle>>

(* lines = f.readlines() *)
count_lines_readlines ==
  /\ pc = "readlines"
  /\ IF ValidUtf8(Entry(fs, args.filepath).content)
     THEN /\ lines' = readlines(Entry(fs, args.filepath).content)
          /\ events' = Append(events, Event("readlines", args.filepath))
          /\ pc' = "info_processed"
          /\ UNCHANGED exc
     ELSE /\ exc' = "UnicodeDecodeError"
          /\ events' = Append(events, Event("readlines_failed", args.filepath))
          /\ pc' = "close"
          /\ UNCHANGED lines
  /\ UNCHANGED <<argv, fs, fs0, args, logger, issued, stdout, stderr, handle, exitCode>>

(* logging.info(f"Processed file: {filepath}") *)
count_lines_info_processed ==
  /\ pc = "info_processed"
  /\ Log(<<"INFO">>, ProcessedMsg(args.filepath))
  /\ pc' = "info_total"
  /\ UNCHANGED <<argv, fs0, args, logger, stdout, handle, lines, exc, exitCode>>

(* logging.info(f"Total lines: {line_count}") *)
count_lines_info_total ==
  /\ pc = "info_total"
  /\ Log(<<"INFO">>, TotalMsg(line_count))
  /\ pc' = "print"
  /\ UNCHANGED <<argv, fs0, args, logger, stdout, handle, lines, exc, exitCode>>

(* print(f" {filepath} has {line_count} lines.") *)
count_lines_print ==
  /\ pc = "print"
  /\ stdout' = stdout \o Summary(args.filepath, line_count) \o <<LF>>
  /\ events' = Append(events, Event("print", Summary(args.filepath, line_count)))
  /\ pc' = "close"
  /\ UNCHANGED <<argv, fs, fs0, args, logger, issued, stderr, handle, lines, exc, exitCode>>

(* leaving the with block with the exception suppressed *)
count_lines_close_suppress ==
  /\ pc = "close"
  /\ handle' = "closed"
  /\ events' = Append(events, Event("close", args.filepath))
  /\ exitCode' = 0
  /\ pc' = "exit"
  /\ UNCHANGED <<argv, fs, fs0, args, logger, issued, stdout, stderr, lines, exc>>

(* leaving the with block closes f; an exception raised inside it then
   leaves main() uncaught, otherwise main() returns *)
count_lines_close ==
  /\ pc = "close"
  /\ handle' = "closed"
  /\ events' = Append(events, Event("close", args.filepath))
  /\ IF exc = "none"
     THEN /\ exitCode' = 0
          /\ UNCHANGED stderr
     ELSE /\ exitCode' = 1
          /\ stderr' = Append(stderr, Diagnostic("traceback", exc))
  /\ pc' = "exit"
  /\ UNCHANGED <<argv, fs, fs0, args, logger, issued, stdout, lines, exc>>

count_lines_in_file ==
  \/ count_lines_test_mode
  \/ count_lines_exists
  \/ count_lines_open
  \/ count_lines_readlines
  \/ count_lines_info_processed
  \/ count_lines_info_total
  \/ count_lines_print
  \/ count_lines_close

main == parse_arguments \/ set_logger \/ count_lines_in_file

Next == main

Spec == Init /\ [][Next]_vars

(***************************************************************************)
(* Vocabulary of the properties.                                           *)
(***************************************************************************)
Exited == pc = "exit"

(* parse_arguments returned an InvocationConfig *)
HasConfig == args.filepath # NoPath

(* set_logger returned, so count_lines_in_file was called *)
Entered == logger.configured

FiveLevels == <<(<<"DEBUG">>), (<<"INFO">>), (<<"WARNING">>), (<<"ERROR">>), (<<"CRITICAL">>)>>
FiveLevelSet == {FiveLevels[i] : i \in 1..Len(FiveLevels)}
Rank(l) == CHOOSE i \in 1..Len(FiveLevels) : FiveLevels[i] = l

(* a record of this severity is at or above the configured logLevel *)
AtOrAbove(levelname) == Rank(levelname) >= Rank(args.log_level)

Count(t, c) == Cardinality({i \in 1..Len(t) : t[i] = c})
Contains(t, u) == \E i \in 0..(Len(t) - Len(u)) : SubSeq(t, i + 1, i + Len(u)) = u
Ops == {events[i].op : i \in 1..Len(events)}

(* what this run wrote to the console as log records, and to logfile.log *)
ConsoleLog == SelectSeq(stderr, LAMBDA r : r.kind = "log")
LogFileAppended ==
  SubSeq(fs[LogFileName].content, Len(fs0[LogFileName].content) + 1,
         Len(fs[LogFileName].content))

OnConsole(levelname, msg) ==
  \E i \in 1..Len(stderr) : stderr[i].kind = "log" /\ stderr[i].text = Format(levelname, msg)
InLogFile(levelname, msg) == Contains(LogFileAppended, Format(levelname, msg))
ReachedSink(levelname, msg) == OnConsole(levelname, msg) \/ InLogFile(levelname, msg)

Issued(levelname, msg) == \E i \in 1..Len(issued) : issued[i] = Call(levelname, msg)

(* the text of the issued records that pass the threshold, in order *)
RECURSIVE PassingText(_)
PassingText(calls) ==
  IF calls = <<>> THEN <<>>
  ELSE (IF AtOrAbove(Head(calls).levelname)
        THEN <<Format(Head(calls).levelname, Head(calls).msg)>> ELSE <<>>)
       \o PassingText(Tail(calls))

RECURSIVE Flatten(_)
Flatten(ts) == IF ts = <<>> THEN <<>> ELSE Head(ts) \o Flatten(Tail(ts))

ConsoleLogText == [i \in 1..Len(ConsoleLog) |-> ConsoleLog[i].text]

(* the content is a sequence of N lines, each ended by "\n" *)
NewlineTerminated(c) == c = <<>> \/ c[Len(c)] = LF
LoneCR(c) == \E i \in 1..Len(c) : c[i] = CR /\ (i = Len(c) \/ c[i + 1] # LF)
HasLineBreak(t) == \E i \in 1..Len(t) : t[i] \in {LF, CR}

(* the target was, before the run, an existing readable file of valid UTF-8
   made of newline-terminated lines *)
CountableTarget ==
  /\ Entered
  /\ ~args.test
  /\ Entry(fs0, args.filepath).kind = "file"
  /\ Entry(fs0, args.filepath).readable
  /\ ValidUtf8(Entry(fs0, args.filepath).content)
  /\ NewlineTerminated(Entry(fs0, args.filepath).content)

TargetLines == Count(Entry(fs0, args.filepath).content, LF)

(***************************************************************************)
(* C1 (as stated): a non-test run of count_lines_in_file on an existing,   *)
(* readable, valid UTF-8 file of exactly N newline-terminated lines writes *)
(* exactly one line to standard output, " <filepath> has N lines.".        *)
(* Stated here for filepaths without a line break.  Refuted: a lone "\r"   *)
(* in the file is a line break for readlines(), so "x\rx\n" counts as 2.   *)
(***************************************************************************)
C1_AsStated ==
  (Exited /\ CountableTarget /\ ~HasLineBreak(args.filepath)) =>
    /\ stdout = Summary(args.filepath, TargetLines) \o <<LF>>
    /\ Count(stdout, LF) = 1

(***************************************************************************)
(* C1 (amended): the same, for a file in which every "\r" is immediately   *)
(* followed by "\n" and a filepath without a line break.                   *)
(***************************************************************************)
C1_LineCount ==
  (Exited /\ CountableTarget
     /\ ~LoneCR(Entry(fs0, args.filepath).content)
     /\ ~HasLineBreak(args.filepath)) =>
    /\ stdout = Summary(args.filepath, TargetLines) \o <<LF>>
    /\ Count(stdout, LF) = 1

C1_Witness ==
  /\ Exited /\ CountableTarget
  /\ Entry(fs0, args.filepath).content = <<CR, LF, LF>>
  /\ args.filepath = ATxt
  /\ stdout = <<" ", "a.txt", " has ", "2", " lines.", LF>>

TargetOpened == handle # "none" \/ "open" \in Ops

(***************************************************************************)
(* C2 (as stated): in every non-test run whose filepath does not exist,    *)
(* standard output stays empty, an ERROR record "File not found:           *)
(* <filepath>" is emitted, no file is opened and the exit code is 0.       *)
(* Stated here for runs that reach the Line Counter with filepath absent   *)
(* at the existence check.  Refuted: with --log-level CRITICAL the ERROR   *)
(* record is discarded.                                                    *)
(***************************************************************************)
C2_AsStated ==
  (Exited /\ Entered /\ ~args.test /\ Entry(fs, args.filepath).kind = "absent") =>
    /\ stdout = <<>>
    /\ ReachedSink(<<"ERROR">>, NotFoundMsg(args.filepath))
    /\ ~TargetOpened
    /\ exitCode = 0

(***************************************************************************)
(* C2 (amended): in every non-test run that reaches the Line Counter with  *)
(* a filepath that does not exist at the existence check, standard output  *)
(* stays empty, exactly one logging call is issued, ERROR "File not found: *)
(* <filepath>", which reaches the sink exactly when logLevel is not        *)
(* CRITICAL, no file is opened for reading and the exit code is 0.         *)
(***************************************************************************)
C2_NotFound ==
  (Exited /\ Entered /\ ~args.test /\ Entry(fs, args.filepath).kind = "absent") =>
    /\ stdout = <<>>
    /\ issued = <<Call(<<"ERROR">>, NotFoundMsg(args.filepath))>>
    /\ ReachedSink(<<"ERROR">>, NotFoundMsg(args.filepath)) <=> args.log_level # <<"CRITICAL">>
    /\ ~TargetOpened
    /\ exitCode = 0

C2_Witness ==
  /\ Exited /\ Entered /\ ~args.test
  /\ Entry(fs, args.filepath).kind = "absent"
  /\ args.log_level = <<"CRITICAL">>
  /\ issued = <<Call(<<"ERROR">>, NotFoundMsg(args.filepath))>>
  /\ stderr = <<>>
  /\ exitCode = 0

TargetOps == {"exists", "open", "open_failed", "readlines", "readlines_failed", "close"}

(***************************************************************************)
(* C3: in every run with testMode = true the Line Counter makes no         *)
(* existence check and opens nothing, and standard output stays empty,     *)
(* whether or not filepath exists.                                         *)
(***************************************************************************)
C3_TestModeNoAccess ==
  (HasConfig /\ args.test) =>
    /\ Ops \cap TargetOps = {}
    /\ handle = "none"
    /\ stdout = <<>>

C3_Witness ==
  /\ Exited /\ Entered /\ args.test
  /\ Entry(fs0, args.filepath).kind = "file"
  /\ Issued(<<"INFO">>, TestModeMsg)
  /\ Ops \cap TargetOps = {}

LevelValueAt(i) == i < Len(argv) /\ argv[i] = LogLevelFlag

HelpBefore(i) == \E j \in 1..(i - 1) : argv[j] \in HelpFlags

OtherValueGiven ==
  \E i \in 1..Len(argv) :
    LevelValueAt(i) /\ argv[i + 1] \notin FiveLevelSet /\ ~HelpBefore(i)

(* a filepath followed by --log-level and one value *)
LevelCommand == Len(argv) = 3 /\ argv[1] \in Paths /\ argv[2] = LogLevelFlag

HelpRequested == \E i \in 1..Len(argv) : argv[i] \in HelpFlags

UsageError == \E i \in 1..Len(stderr) : stderr[i].kind = "usage"

TestModeDone == Entered /\ args.test /\ Issued(<<"INFO">>, TestModeMsg)

FileCounted == "print" \in Ops

NotFoundReported == Entered /\ ~args.test /\ Issued(<<"ERROR">>, NotFoundMsg(args.filepath))

CompletedNormally == TestModeDone \/ FileCounted \/ NotFoundReported

(* the target passed the existence check, and opening or decoding it fails *)
TargetReadFails ==
  /\ Entered /\ ~args.test
  /\ Entry(fs, args.filepath).kind # "absent"
  /\ \/ Entry(fs, args.filepath).kind = "dir"
     \/ ~Entry(fs, args.filepath).readable
     \/ ~ValidUtf8(Entry(fs, args.filepath).content)

(***************************************************************************)
(* C5 (as stated): the exit code is 0 exactly when the run completes       *)
(* normally (test mode, file counted, or file reported not found) and      *)
(* non-zero exactly when argument parsing fails or an I/O or decoding      *)
(* error occurs while opening or reading a path that passed the existence  *)
(* check; in the non-zero cases nothing is written to standard output.     *)
(* Stated here for command lines without -h/--help.  Refuted: with         *)
(* --log-to-file and a logfile.log that cannot be opened for appending the *)
(* run ends in set_logger with a non-zero exit.                            *)
(***************************************************************************)
C5_AsStated ==
  (Exited /\ ~HelpRequested) =>
    /\ exitCode = 0 <=> CompletedNormally
    /\ exitCode # 0 <=> (UsageError \/ TargetReadFails)
    /\ exitCode # 0 => stdout = <<>>

HelpPrinted == ~HasConfig /\ stdout = HelpText

LogFileOpenFails ==
  /\ HasConfig /\ args.log_to_file
  /\ fs0[LogFileName].kind = "dir" \/ (fs0[LogFileName].kind = "file" /\ ~fs0[LogFileName].writable)

(***************************************************************************)
(* C5 (amended): the exit code is 0 exactly when the run completes         *)
(* normally (test mode, file counted, file reported not found) or prints   *)
(* the help text for -h/--help, and non-zero exactly when argument parsing *)
(* fails, or --log-to-file is given and logfile.log cannot be opened for   *)
(* appending, or an I/O or decoding error occurs while opening or reading  *)
(* a path that passed the existence check; in the non-zero cases nothing   *)
(* is written to standard output.                                          *)
(***************************************************************************)
C5_ExitCode ==
  Exited =>
    /\ exitCode = 0 <=> (CompletedNormally \/ HelpPrinted)
    /\ exitCode # 0 <=> (UsageError \/ LogFileOpenFails \/ TargetReadFails)
    /\ exitCode # 0 => stdout = <<>>
    /\ exitCode \in {0, 1, 2}

C5_Witness ==
  /\ Exited /\ exitCode = 1
  /\ LogFileOpenFails
  /\ ~UsageError /\ ~TargetReadFails
  /\ stdout = <<>>

(***************************************************************************)
(* C6: every log record the program issues reaches the logging sink if and *)
(* only if its severity is at or above the configured logLevel, in the     *)
(* order DEBUG < INFO < WARNING < ERROR < CRITICAL.                        *)
(***************************************************************************)
C6_Threshold ==
  \A i \in 1..Len(issued) :
    ReachedSink(issued[i].levelname, issued[i].msg) <=> AtOrAbove(issued[i].levelname)

C6_Witness ==
  /\ Exited
  /\ args.log_level = <<"ERROR">>
  /\ issued = <<Call(<<"ERROR">>, NotFoundMsg(args.filepath))>>
  /\ ReachedSink(<<"ERROR">>, NotFoundMsg(args.filepath))

(* position i holds the value of a --log-level option *)
IsLevelValue(i) == i > 1 /\ argv[i - 1] = LogLevelFlag

Positionals == {i \in 1..Len(argv) : argv[i] \notin OptionStrings /\ ~IsLevelValue(i)}

(* --test, one filepath, and the other two options at accepted values *)
TestCommand ==
  /\ \E i \in 1..Len(argv) : argv[i] \in TestFlags
  /\ ~HelpRequested
  /\ Cardinality(Positionals) = 1
  /\ \A i \in 1..Len(argv) :
       argv[i] = LogLevelFlag => (i < Len(argv) /\ argv[i + 1] \in FiveLevelSet)

(***************************************************************************)
(* C7 (as stated): running with --test and any filepath, the other options *)
(* at any accepted value including their defaults, produces no standard-   *)
(* output text, an INFO record "Test mode: skipping actual file            *)
(* processing." and exit code 0.                                           *)
(* Refuted: at the default level WARNING (and at ERROR, CRITICAL) the INFO *)
(* record is discarded and the run produces no record at all.  Stated     *)
(* here for runs in which the logging sink could be set up.                *)
(***************************************************************************)
C7_AsStated ==
  (Exited /\ TestCommand /\ ~LogFileOpenFails) =>
    /\ stdout = <<>>
    /\ ReachedSink(<<"INFO">>, TestModeMsg)
    /\ exitCode = 0

(***************************************************************************)
(* C7 (amended): running with --test and any filepath, the other options   *)
(* at any accepted value including their defaults, produces no standard-   *)
(* output text; unless --log-to-file is given and logfile.log cannot be    *)
(* opened (then the exit code is non-zero and nothing is logged), it       *)
(* issues exactly one logging call, INFO "Test mode: skipping actual file  *)
(* processing.", which becomes a record at the sink exactly when           *)
(* --log-level is DEBUG or INFO, and exits with code 0.                    *)
(***************************************************************************)
C7_TestRun ==
  (Exited /\ TestCommand) =>
    /\ stdout = <<>>
    /\ HasConfig /\ args.test
    /\ IF LogFileOpenFails
       THEN exitCode # 0 /\ issued = <<>>
       ELSE /\ exitCode = 0
            /\ issued = <<Call(<<"INFO">>, TestModeMsg)>>
            /\ ReachedSink(<<"INFO">>, TestModeMsg)
                 <=> args.log_level \in {<<"DEBUG">>, <<"INFO">>}

C7_Witness ==
  /\ Exited /\ TestCommand
  /\ argv = <<ATxt, <<"-t">>>>
  /\ Entry(fs0, ATxt).kind = "absent"
  /\ issued = <<Call(<<"INFO">>, TestModeMsg)>>
  /\ ~ReachedSink(<<"INFO">>, TestModeMsg)
  /\ exitCode = 0

IsProcessed(e) == e = Event("log", ProcessedMsg(args.filepath))

IsTotal(e) == e.op = "log" /\ Len(e.arg) = 2 /\ e.arg[1] = "Total lines: "

IsPrint(e) == e.op = "print"

IsOutput(e) == IsProcessed(e) \/ IsTotal(e) \/ IsPrint(e)

(***************************************************************************)
(* C9: in a non-test run on an existing file the INFO record "Processed    *)
(* file: <filepath>", the INFO record "Total lines: <lineCount>" and the   *)
(* standard-output line occur only after the whole file has been read, in  *)
(* this order; if opening or reading the file fails none of the three is   *)
(* produced.                                                               *)
(***************************************************************************)
C9_OutputOrder ==
  /\ \A k \in 1..Len(events) :
       /\ IsProcessed(events[k]) =>
            k > 1 /\ events[k - 1] = Event("readlines", args.filepath)
       /\ IsTotal(events[k]) =>
            /\ k > 1 /\ IsProcessed(events[k - 1])
            /\ events[k].arg = TotalMsg(line_count)
       /\ IsPrint(events[k]) =>
            /\ k > 1 /\ IsTotal(events[k - 1])
            /\ events[k].arg = Summary(args.filepath, line_count)
  /\ (Ops \cap {"open_failed", "readlines_failed"} # {}) =>
       /\ \A k \in 1..Len(events) : ~IsOutput(events[k])
       /\ issued = <<>> /\ stdout = <<>> /\ ConsoleLog = <<>>
  /\ (Exited /\ exitCode = 0 /\ Entered /\ ~args.test /\ exists(fs, args.filepath)) =>
       /\ issued = <<Call(<<"INFO">>, ProcessedMsg(args.filepath)),
                     Call(<<"INFO">>, TotalMsg(line_count))>>
       /\ stdout = Summary(args.filepath, line_count) \o <<LF>>
  /\ \A i, j \in 1..Len(ConsoleLog) :
       (ConsoleLog[i].text = Format(<<"INFO">>, TotalMsg(line_count))
          /\ ConsoleLog[j].text = Format(<<"INFO">>, ProcessedMsg(args.filepath))) => j < i

C9_Witness ==
  /\ Exited /\ ~args.test
  /\ args.log_level = <<"INFO">> /\ ~args.log_to_file
  /\ Len(ConsoleLog) = 2
  /\ ConsoleLog[1].text = Format(<<"INFO">>, ProcessedMsg(args.filepath))
  /\ ConsoleLog[2].text = Format(<<"INFO">>, TotalMsg(3))
  /\ stdout = Summary(args.filepath, 3) \o <<LF>>

Positions(op) == {i \in 1..Len(events) : events[i].op = op}

(***************************************************************************)
(* C10: the handle of the target file is opened at most once per run, only *)
(* in non-test mode after the existence check succeeded, and whenever it   *)
(* was opened it is closed before the run ends, on every exit path,        *)
(* including when reading or decoding fails.                               *)
(***************************************************************************)
C10_HandleScope ==
  /\ Cardinality(Positions("open")) <= 1
  /\ handle = "none" <=> Positions("open") = {}
  /\ \A k \in Positions("open") :
       /\ ~args.test
       /\ k > 1 /\ events[k - 1] = Event("exists", args.filepath)
       /\ Entry(fs, args.filepath).kind # "absent"
  /\ Exited => handle \in {"none", "closed"}
  /\ handle = "closed" <=> Positions("close") # {}
  /\ \A k \in Positions("close") : \E j \in Positions("open") : j < k

C10_Witness ==
  /\ Exited
  /\ exc = "UnicodeDecodeError"
  /\ exitCode = 1
  /\ handle = "closed"
  /\ Cardinality(Positions("open")) = 1

====
